---- MODULE Spec2Model ----
(***************************************************************************)
(* Stash Duplicate Finder (src/main.py): the configuration file, the       *)
(* catalog held by the remote Stash instance, the HTTP handlers and the     *)
(* four grouping strategies they dispatch to.                               *)
(*                                                                          *)
(* Representation choices                                                   *)
(*  - a str that the code inspects character by character (a title) is a   *)
(*    sequence of one-character strings; identifiers and fingerprint        *)
(*    values, which the code only tests for emptiness and equality, are     *)
(*    TLA+ strings;                                                         *)
(*  - a Scene reference is the position of the Scene object in the list     *)
(*    StashResponse.scenes of the request (object identity);                *)
(*  - a dict is a record [keys, at]: keys is the sequence of keys in        *)
(*    insertion order (Python dicts iterate in insertion order), at maps    *)
(*    each key to its value.                                                *)
(***************************************************************************)
EXTENDS Integers, Sequences, FiniteSets, TLC

VARIABLES
    config_file,      \* config.json: whether it exists, and the StashConfig in it
    catalog,          \* the scenes the remote Stash instance holds
    request,          \* the request being served ("none" between requests)
    response,         \* what its handler returned or raised
    fetches,          \* outcomes of the requests.post calls of that request, in order
    strategy_run,     \* the find_duplicates_by_* function that request called
    name_locals       \* locals of find_duplicates_by_name when it returned

vars == <<config_file, catalog, request, response, fetches, strategy_run, name_locals>>

-----------------------------------------------------------------------------
(* Bounds *)

MaxScenes == 3

-----------------------------------------------------------------------------
(* Python helpers *)

Max(a, b) == IF a >= b THEN a ELSE b

Range(s) == {s[i] : i \in 1..Len(s)}

RECURSIVE SumLen(_, _)
SumLen(d, ks) ==
    IF ks = <<>> THEN 0 ELSE Len(d[Head(ks)]) + SumLen(d, Tail(ks))

EmptyDict == [keys |-> <<>>, at |-> <<>>]

\* a variant of dict_append that inserts at the front of the bucket
dict_prepend(d, k, v) ==
    IF k \in DOMAIN d.at
    THEN [d EXCEPT !.at[k] = <<v>> \o @]
    ELSE [keys |-> Append(d.keys, k),
          at   |-> [x \in DOMAIN d.at \cup {k} |->
                       IF x = k THEN <<v>> ELSE d.at[x]]]

\* defaultdict(list): d[k].append(v)
dict_append(d, k, v) ==
    IF k \in DOMAIN d.at
    THEN [d EXCEPT !.at[k] = Append(@, v)]
    ELSE [keys |-> Append(d.keys, k),
          at   |-> [x \in DOMAIN d.at \cup {k} |->
                       IF x = k THEN <<v>> ELSE d.at[x]]]

\* d[k] = v for a key that may or may not be present
dict_set(d, k, v) ==
    [keys |-> IF k \in DOMAIN d.at THEN d.keys ELSE Append(d.keys, k),
     at   |-> [x \in DOMAIN d.at \cup {k} |-> IF x = k THEN v ELSE d.at[x]]]

RECURSIVE KeepLong(_, _, _)
KeepLong(d, ks, acc) ==
    IF ks = <<>> THEN acc
    ELSE KeepLong(d, Tail(ks),
                  IF Len(d.at[Head(ks)]) > 1
                  THEN dict_set(acc, Head(ks), d.at[Head(ks)])
                  ELSE acc)

\* a variant of only_duplicates that filters nothing
keep_all(d) == d

\* {k: v for k, v in d.items() if len(v) > 1}
only_duplicates(d) == KeepLong(d, d.keys, EmptyDict)

-----------------------------------------------------------------------------
(* str.lower and str.strip on the characters the model uses *)

Whitespace == {" "}

lower_char(c) ==
    CASE c = "A" -> "a"
      [] c = "B" -> "b"
      [] OTHER   -> c

lower(s) == [i \in 1..Len(s) |-> lower_char(s[i])]

RECURSIVE lstrip(_)
lstrip(s) ==
    IF s # <<>> /\ Head(s) \in Whitespace THEN lstrip(Tail(s)) ELSE s

RECURSIVE rstrip(_)
rstrip(s) ==
    IF s # <<>> /\ s[Len(s)] \in Whitespace
    THEN rstrip(SubSeq(s, 1, Len(s) - 1))
    ELSE s

strip(s) == rstrip(lstrip(s))

-----------------------------------------------------------------------------
(* rapidfuzz.fuzz.ratio: the normalized Indel similarity, on a 0..100 scale *)
(*   100 * (1 - indel_distance / (len1 + len2)),  100 when both are empty,  *)
(*   indel_distance = len1 + len2 - 2 * LCS(s1, s2).                        *)
(* The value is kept as the exact fraction num / den.                       *)

RECURSIVE lcs_row(_, _, _, _)
lcs_row(prev, c, s2, row) ==
    IF Len(row) = Len(s2) + 1 THEN row
    ELSE LET j == Len(row)
             v == IF c = s2[j] THEN prev[j] + 1
                  ELSE Max(prev[j + 1], row[j])
         IN  lcs_row(prev, c, s2, Append(row, v))

RECURSIVE lcs_rows(_, _, _)
lcs_rows(s1, s2, prev) ==
    IF s1 = <<>> THEN prev[Len(s2) + 1]
    ELSE lcs_rows(Tail(s1), s2, lcs_row(prev, Head(s1), s2, <<0>>))

lcs_plain(s1, s2) ==
    lcs_rows(s1, s2, [j \in 1..(Len(s2) + 1) |-> 0])

RECURSIVE common_prefix(_, _)
common_prefix(s1, s2) ==
    IF s1 # <<>> /\ s2 # <<>> /\ Head(s1) = Head(s2)
    THEN 1 + common_prefix(Tail(s1), Tail(s2))
    ELSE 0

RECURSIVE common_suffix(_, _)
common_suffix(s1, s2) ==
    IF s1 # <<>> /\ s2 # <<>> /\ s1[Len(s1)] = s2[Len(s2)]
    THEN 1 + common_suffix(SubSeq(s1, 1, Len(s1) - 1), SubSeq(s2, 1, Len(s2) - 1))
    ELSE 0

\* rapidfuzz strips the common prefix and suffix, which are part of every
\* longest common subsequence, and runs the LCS on what is left
lcs_seq_similarity(s1, s2) ==
    LET p  == common_prefix(s1, s2)
        r1 == SubSeq(s1, p + 1, Len(s1))
        r2 == SubSeq(s2, p + 1, Len(s2))
        q  == common_suffix(r1, r2)
    IN  p + q + lcs_plain(SubSeq(r1, 1, Len(r1) - q), SubSeq(r2, 1, Len(r2) - q))

indel_distance(s1, s2) ==
    Len(s1) + Len(s2) - 2 * lcs_seq_similarity(s1, s2)

ratio(s1, s2) ==
    LET maximum == Len(s1) + Len(s2)
    IN  IF maximum = 0
        THEN [num |-> 100, den |-> 1]
        ELSE [num |-> 100 * (maximum - indel_distance(s1, s2)), den |-> maximum]

\* the threshold of "similarity > 85"
Threshold == 85

\* similarity > t, for a similarity num / den with den > 0
exceeds(similarity, t) == similarity.num > t * similarity.den

-----------------------------------------------------------------------------
(* find_duplicates_by_stashid *)

\* [stash_id["stash_id"] for stash_id in scene.stash_ids if stash_id.get("stash_id")]
stash_ids_of(scene) ==
    SelectSeq([i \in 1..Len(scene.stash_ids) |->
                  IF "stash_id" \in DOMAIN scene.stash_ids[i]
                  THEN scene.stash_ids[i].stash_id ELSE ""],
              LAMBDA x : x # "")

RECURSIVE append_each(_, _, _)
append_each(d, ks, ref) ==
    IF ks = <<>> THEN d
    ELSE append_each(IF Head(ks) # "" THEN dict_append(d, Head(ks), ref) ELSE d,
                     Tail(ks), ref)

RECURSIVE stashid_groups(_, _, _)
stashid_groups(scenes, i, d) ==
    IF i > Len(scenes) THEN d
    ELSE stashid_groups(scenes, i + 1, append_each(d, stash_ids_of(scenes[i]), i))

find_duplicates_by_stashid(scenes) ==
    only_duplicates(stashid_groups(scenes, 1, EmptyDict))

-----------------------------------------------------------------------------
(* find_duplicates_by_oshash, find_duplicates_by_phash *)

\* file.get("fingerprints", [])
fingerprints_of(file) ==
    IF "fingerprints" \in DOMAIN file THEN file.fingerprints ELSE <<>>

\* the values a file's fingerprints of one type append, in order
RECURSIVE file_values(_, _)
file_values(fps, type) ==
    IF fps = <<>> THEN <<>>
    ELSE (IF Head(fps).type = type /\ Head(fps).value # ""
          THEN <<Head(fps).value>> ELSE <<>>)
         \o file_values(Tail(fps), type)

RECURSIVE scene_values(_, _)
scene_values(files, type) ==
    IF files = <<>> THEN <<>>
    ELSE file_values(fingerprints_of(Head(files)), type)
         \o scene_values(Tail(files), type)

RECURSIVE once_each(_)
once_each(vs) ==
    IF vs = <<>> THEN <<>>
    ELSE <<Head(vs)>> \o once_each(SelectSeq(Tail(vs), LAMBDA x : x # Head(vs)))

\* a variant of scene_entries in which a scene enters a bucket at most once
scene_entries_once(scene, type) == once_each(scene_values(scene.files, type))

\* the keys one scene is appended under, one per file and fingerprint
scene_entries(scene, type) == scene_values(scene.files, type)

RECURSIVE hash_groups(_, _, _, _)
hash_groups(scenes, type, i, d) ==
    IF i > Len(scenes) THEN d
    ELSE hash_groups(scenes, type, i + 1,
                     append_each(d, scene_entries(scenes[i], type), i))

find_duplicates_by_oshash(scenes) ==
    only_duplicates(hash_groups(scenes, "oshash", 1, EmptyDict))

find_duplicates_by_phash(scenes) ==
    only_duplicates(hash_groups(scenes, "phash", 1, EmptyDict))

-----------------------------------------------------------------------------
(* find_duplicates_by_name *)

\* if scene.title:
has_title(scene) == scene.title # <<>>

\* scene.title.lower().strip()
normalized_title(scene) == strip(lower(scene.title))

RECURSIVE title_groups_of(_, _, _)
title_groups_of(scenes, i, d) ==
    IF i > Len(scenes) THEN d
    ELSE title_groups_of(scenes, i + 1,
             IF has_title(scenes[i])
             THEN dict_append(d, normalized_title(scenes[i]), i)
             ELSE d)

\* a variant of similar with  similarity >= 85
similar_or_equal(title1, title2) ==
    ratio(title1, title2).num >= Threshold * ratio(title1, title2).den

\* if similarity > 85:
similar(title1, title2) == exceeds(ratio(title1, title2), Threshold)

\* group = title_groups[title1].copy(): the group is a new list, so the
\* bucket keeps its value whatever is appended to the group
seed_group(tg, title1) == tg.at[title1]

\* a variant of merge that leaves title2 out of processed
merge_unmarked(tg, st, title2) ==
    [group     |-> st.group \o tg.at[title2],
     processed |-> st.processed]

\* group.extend(title_groups[title2]); processed.add(title2)
\* st = [group, processed]
merge(tg, st, title2) ==
    [group     |-> st.group \o tg.at[title2],
     processed |-> st.processed \cup {title2}]

\* the inner loop  for j, title2 in enumerate(titles[i+1:], i+1)
RECURSIVE scan(_, _, _, _, _)
scan(tg, titles, title1, j, st) ==
    IF j > Len(titles) THEN st
    ELSE LET title2 == titles[j]
         IN  IF title2 \in st.processed
             THEN scan(tg, titles, title1, j + 1, st)
             ELSE IF similar(title1, title2)
                  THEN scan(tg, titles, title1, j + 1, merge(tg, st, title2))
                  ELSE scan(tg, titles, title1, j + 1, st)

\* the outer loop  for i, title1 in enumerate(titles)
\* L = [title_groups, titles, processed, fuzzy_groups]
RECURSIVE fuzzy_loop(_, _)
fuzzy_loop(L, i) ==
    IF i > Len(L.titles) THEN L
    ELSE LET title1 == L.titles[i]
         IN  IF title1 \in L.processed
             THEN fuzzy_loop(L, i + 1)
             ELSE LET st == scan(L.title_groups, L.titles, title1, i + 1,
                                 [group     |-> seed_group(L.title_groups, title1),
                                  processed |-> L.processed])
                  IN  fuzzy_loop(
                        [title_groups |-> L.title_groups,
                         titles       |-> L.titles,
                         processed    |-> st.processed \cup {title1},
                         fuzzy_groups |-> IF Len(st.group) > 1
                                          THEN dict_set(L.fuzzy_groups, title1, st.group)
                                          ELSE L.fuzzy_groups],
                        i + 1)

\* the locals of find_duplicates_by_name at its return statement
name_run(scenes) ==
    LET tg == title_groups_of(scenes, 1, EmptyDict)
    IN  fuzzy_loop([title_groups |-> tg,
                    titles       |-> tg.keys,
                    processed    |-> {},
                    fuzzy_groups |-> EmptyDict], 1)

find_duplicates_by_name(scenes) == name_run(scenes).fuzzy_groups

-----------------------------------------------------------------------------
(* Configuration: StashConfig, get_config, save_config *)

Placeholder == "http://localhost:9999/graphql"

Endpoints == {"", Placeholder, "http://stash:9999/graphql"}

StashConfig(stash_endpoint, api_key) ==
    [stash_endpoint |-> stash_endpoint, api_key |-> api_key]

\* config.json: absent, or the JSON of a StashConfig
NoFile == [exists |-> FALSE]

\* what the settings form can send as api_key
ApiKeys == {"", "k"}

\* api_key if api_key else None
key_or_none(api_key) == IF api_key # "" THEN api_key ELSE "None"

ConfigFiles ==
    {NoFile} \cup
    {[exists |-> TRUE, data |-> StashConfig(e, key_or_none(k))] :
        e \in Endpoints, k \in ApiKeys}

get_config(file) ==
    IF ~file.exists THEN StashConfig(Placeholder, "") ELSE file.data

save_config(config) == [exists |-> TRUE, data |-> config]

-----------------------------------------------------------------------------
(* The catalog of the remote Stash instance *)

Rep(c, n) == [i \in 1..n |-> c]

TitleA == Rep("a", 17)
TitleB == Rep("a", 17) \o Rep("b", 3)
TitleC == Rep("a", 17) \o Rep("b", 6)
TitleA2 == <<" ", "A">> \o Rep("a", 16) \o <<" ">>
TitleBlank == <<" ">>
TitleEmpty == <<>>

Fp(type, value) == [type |-> type, value |-> value]

Scene1 ==
    [title     |-> TitleA,
     stash_ids |-> <<[stash_id |-> "X"]>>,
     files     |-> <<[fingerprints |-> <<Fp("oshash", "h")>>]>>]

Scene2 ==
    [title     |-> TitleB,
     stash_ids |-> <<[stash_id |-> "X"], [stash_id |-> "Y"]>>,
     files     |-> <<[fingerprints |-> <<Fp("oshash", "h")>>],
                     [fingerprints |-> <<Fp("oshash", "h")>>]>>]

Scene3 ==
    [title     |-> TitleC,
     stash_ids |-> <<[stash_id |-> "X"], [stash_id |-> "X"]>>,
     files     |-> <<[fingerprints |-> <<Fp("phash", "h")>>]>>]

Scene4 ==
    [title     |-> TitleBlank,
     stash_ids |-> <<[stash_id |-> ""], [endpoint |-> "e"], [stash_id |-> "x"]>>,
     files     |-> <<[fingerprints |-> <<Fp("oshash", ""), Fp("md5", "h")>>],
                     [basename |-> "f"]>>]

Scene5 ==
    [title     |-> TitleEmpty,
     stash_ids |-> <<>>,
     files     |-> <<>>]

Scene6 ==
    [title     |-> TitleA2,
     stash_ids |-> <<[stash_id |-> "Y"]>>,
     files     |-> <<[fingerprints |-> <<Fp("oshash", "g"), Fp("phash", "h")>>]>>]

SceneUniverse == {Scene1, Scene2, Scene3, Scene4, Scene5, Scene6}

Catalogs == UNION {[1..n -> SceneUniverse] : n \in 0..MaxScenes}

-----------------------------------------------------------------------------
(* fetch_all_scenes *)

\* what requests.post and the response can do for an endpoint: an empty URL
\* has no schema and never leaves the process; the placeholder is the address
\* of a Stash instance on the same host, which may or may not be running.
\* The ApiKey header the code adds does not change what the handlers do with
\* the outcome.
Outcomes(stash_endpoint) ==
    IF stash_endpoint = "" THEN {"unreachable"}
    ELSE {"ok", "unreachable", "graphql_errors"}

\* a variant of fetch_all_scenes that answers a failure with an empty catalog
fetch_masking_failure(config, outcome, held) ==
    [raised |-> FALSE,
     value  |-> IF outcome = "ok"
                THEN [count |-> Len(held), scenes |-> held]
                ELSE [count |-> 0, scenes |-> <<>>]]

fetch_all_scenes(config, outcome, held) ==
    CASE outcome = "ok" ->
           [raised |-> FALSE,
            value  |-> [count |-> Len(held), scenes |-> held]]
      [] outcome = "graphql_errors" ->
           [raised |-> TRUE, status_code |-> 400, detail |-> "GraphQL Error"]
      [] outcome = "unreachable" ->
           [raised |-> TRUE, status_code |-> 500,
            detail |-> "Failed to connect to Stash"]

-----------------------------------------------------------------------------
(* Responses *)

RedirectResponse(url, status_code) ==
    [kind |-> "redirect", url |-> url, status_code |-> status_code]

TemplateResponse(name, context) ==
    [kind |-> "template", name |-> name, context |-> context]

HTTPException(status_code, detail) ==
    [kind |-> "http_exception", status_code |-> status_code, detail |-> detail]

NoLocals == [title_groups |-> EmptyDict, titles |-> <<>>,
             processed |-> {}, fuzzy_groups |-> EmptyDict]

-----------------------------------------------------------------------------
(* Handlers *)

\* the server is between two requests
idle == request.route = "none"

\* if not config.stash_endpoint or config.stash_endpoint == "http://localhost:9999/graphql"
unconfigured(config) ==
    config.stash_endpoint = "" \/ config.stash_endpoint = Placeholder

\* GET /
root ==
    LET config == get_config(config_file)
    IN  /\ idle
        /\ request' = [route |-> "/"]
        /\ strategy_run' = "none"
        /\ name_locals' = NoLocals
        /\ UNCHANGED <<config_file, catalog>>
        /\ IF unconfigured(config)
           THEN /\ fetches' = <<>>
                /\ response' = RedirectResponse("/settings", 307)
           ELSE \E outcome \in Outcomes(config.stash_endpoint) :
                  LET r == fetch_all_scenes(config, outcome, catalog)
                  IN  /\ fetches' = <<outcome>>
                      /\ response' =
                           IF r.raised
                           THEN TemplateResponse("error.html",
                                  [error_message |-> <<"Error fetching data: ", r.detail>>,
                                   config |-> config])
                           ELSE TemplateResponse("index.html",
                                  [scene_count |-> r.value.count,
                                   scenes |-> r.value.scenes,
                                   config |-> config])

DuplicateTypes == {"stashid", "name", "oshash", "phash", "md5"}

\* the if / elif chain of find_duplicates
dispatch(duplicate_type, scenes) ==
    CASE duplicate_type = "stashid" ->
           [known |-> TRUE, ran |-> "find_duplicates_by_stashid",
            duplicate_groups |-> find_duplicates_by_stashid(scenes),
            method_name |-> "Stash ID"]
      [] duplicate_type = "name" ->
           [known |-> TRUE, ran |-> "find_duplicates_by_name",
            duplicate_groups |-> find_duplicates_by_name(scenes),
            method_name |-> "Name (Fuzzy Match)"]
      [] duplicate_type = "oshash" ->
           [known |-> TRUE, ran |-> "find_duplicates_by_oshash",
            duplicate_groups |-> find_duplicates_by_oshash(scenes),
            method_name |-> "OSHASH"]
      [] duplicate_type = "phash" ->
           [known |-> TRUE, ran |-> "find_duplicates_by_phash",
            duplicate_groups |-> find_duplicates_by_phash(scenes),
            method_name |-> "PHASH"]
      [] OTHER ->
           [known |-> FALSE, ran |-> "none"]

\* sum(len(scenes) for scenes in duplicate_groups.values())
total_duplicate_scenes(duplicate_groups) ==
    SumLen(duplicate_groups.at, duplicate_groups.keys)

\* GET /duplicates/{duplicate_type}
find_duplicates(duplicate_type) ==
    LET config == get_config(config_file)
    IN  /\ idle
        /\ request' = [route |-> "/duplicates", duplicate_type |-> duplicate_type]
        /\ UNCHANGED <<config_file, catalog>>
        /\ \E outcome \in Outcomes(config.stash_endpoint) :
               LET r == fetch_all_scenes(config, outcome, catalog)
               IN  /\ fetches' = <<outcome>>
                   /\ IF r.raised
                      THEN /\ strategy_run' = "none"
                           /\ name_locals' = NoLocals
                           /\ response' = TemplateResponse("error.html",
                                 [error_message |-> <<"Error fetching data: ", r.detail>>,
                                  config |-> config])
                      ELSE LET scenes == r.value.scenes
                               d == dispatch(duplicate_type, scenes)
                           IN  /\ strategy_run' = d.ran
                               /\ name_locals' =
                                    IF d.ran = "find_duplicates_by_name"
                                    THEN name_run(scenes) ELSE NoLocals
                               /\ response' =
                                    IF d.known
                                    THEN TemplateResponse("duplicates.html",
                                           [duplicate_groups |-> d.duplicate_groups,
                                            method_name |-> d.method_name,
                                            duplicate_type |-> duplicate_type,
                                            config |-> config,
                                            total_duplicate_groups |->
                                                Len(d.duplicate_groups.keys),
                                            total_duplicate_scenes |->
                                                total_duplicate_scenes(d.duplicate_groups)])
                                    ELSE HTTPException(404, "Duplicate type not found")

\* GET /settings
settings_page ==
    /\ idle
    /\ request' = [route |-> "/settings", method |-> "GET"]
    /\ response' = TemplateResponse("settings.html",
                                    [config |-> get_config(config_file)])
    /\ fetches' = <<>>
    /\ strategy_run' = "none"
    /\ name_locals' = NoLocals
    /\ UNCHANGED <<config_file, catalog>>

\* POST /settings
update_settings(stash_endpoint, api_key) ==
    /\ idle
    /\ config_file' = save_config(StashConfig(stash_endpoint, key_or_none(api_key)))
    /\ request' = [route |-> "/settings", method |-> "POST"]
    /\ response' = RedirectResponse("/", 303)
    /\ fetches' = <<>>
    /\ strategy_run' = "none"
    /\ name_locals' = NoLocals
    /\ UNCHANGED catalog

\* uvicorn sends what the handler returned and waits for the next request;
\* nothing of a request but config.json outlives it
send_response ==
    /\ ~idle
    /\ request' = [route |-> "none"]
    /\ response' = [kind |-> "none"]
    /\ fetches' = <<>>
    /\ strategy_run' = "none"
    /\ name_locals' = NoLocals
    /\ UNCHANGED <<config_file, catalog>>

-----------------------------------------------------------------------------
(* Specification *)

Init ==
    /\ config_file \in ConfigFiles
    /\ catalog \in Catalogs
    /\ request = [route |-> "none"]
    /\ response = [kind |-> "none"]
    /\ fetches = <<>>
    /\ strategy_run = "none"
    /\ name_locals = NoLocals

Next ==
    \/ root
    \/ \E duplicate_type \in DuplicateTypes : find_duplicates(duplicate_type)
    \/ settings_page
    \/ \E stash_endpoint \in Endpoints, api_key \in ApiKeys :
          update_settings(stash_endpoint, api_key)
    \/ send_response

Spec == Init /\ [][Next]_vars

-----------------------------------------------------------------------------
(* Vocabulary of the properties *)

\* the request ended in the duplicates view
Shown == response.kind = "template" /\ response.name = "duplicates.html"

\* the mapping the duplicates view was given (meaningful when Shown)
Groups == response.context.duplicate_groups.at

Returned(fn) == Shown /\ strategy_run = fn

Refs == 1..Len(catalog)

Occurrences(seq, x) == Cardinality({p \in DOMAIN seq : seq[p] = x})

\* ratio(t1, t2) > 85 and ratio(t1, t2) = 85, on the exact fraction
Above85(t1, t2) == ratio(t1, t2).num > 85 * ratio(t1, t2).den
Exactly85(t1, t2) == ratio(t1, t2).num = 85 * ratio(t1, t2).den

IsBlank(title) == \A p \in DOMAIN title : title[p] \in Whitespace

\* the scenes that are bucketed under normalized title T
Titled(T) == {i \in Refs : catalog[i].title # <<>> /\ normalized_title(catalog[i]) = T}

\* position of the scene's normalized title among the distinct titles
RECURSIVE IndexOf(_, _)
IndexOf(seq, x) ==
    IF seq = <<>> THEN 1
    ELSE IF Head(seq) = x THEN 1 ELSE 1 + IndexOf(Tail(seq), x)

TitleIndex(ref) == IndexOf(name_locals.titles, normalized_title(catalog[ref]))

\* titles[k] is reached by the outer loop while not yet consumed: no earlier
\* seed is within the threshold of it
RECURSIVE IsSeed(_, _)
IsSeed(titles, k) ==
    \A i \in 1..(k - 1) : IsSeed(titles, i) => ~Above85(titles[i], titles[k])

\* the bucket of T2 went into the returned group keyed T1
MergedInto(T2, T1) ==
    /\ T1 \in DOMAIN Groups
    /\ \E p \in DOMAIN Groups[T1] : normalized_title(catalog[Groups[T1][p]]) = T2

\* titles[i] is a seed that precedes titles[j], titles[j] is not consumed when
\* titles[i] scans it, and the two are strictly above the threshold
SeedTakes(titles, i, j) ==
    /\ i < j
    /\ IsSeed(titles, i)
    /\ Above85(titles[i], titles[j])
    /\ \A h \in 1..(i - 1) : IsSeed(titles, h) => ~Above85(titles[h], titles[j])

\* the identifiers a scene carries, empty or missing entries left out
Ids(i) ==
    {catalog[i].stash_ids[e].stash_id :
        e \in {e \in DOMAIN catalog[i].stash_ids :
                  "stash_id" \in DOMAIN catalog[i].stash_ids[e]}} \ {""}

AllIds == UNION {Ids(i) : i \in Refs}

\* the (scene, file, fingerprint) triples of kind K and value V
Triples(K, V) ==
    UNION {UNION {{<<i, f, p>> :
                     p \in {p \in DOMAIN fingerprints_of(catalog[i].files[f]) :
                              /\ fingerprints_of(catalog[i].files[f])[p].type = K
                              /\ fingerprints_of(catalog[i].files[f])[p].value = V}} :
                  f \in DOMAIN catalog[i].files} :
           i \in Refs}

AllValues ==
    UNION {UNION {{fingerprints_of(catalog[i].files[f])[p].value :
                     p \in DOMAIN fingerprints_of(catalog[i].files[f])} :
                  f \in DOMAIN catalog[i].files} :
           i \in Refs}

HashKind ==
    IF strategy_run = "find_duplicates_by_oshash" THEN "oshash" ELSE "phash"

KnownTypes == {"stashid", "name", "oshash", "phash"}

-----------------------------------------------------------------------------
(* Properties *)

\* C1: whatever the scene list and whichever of the four strategies ran, every
\* group of the returned mapping has at least 2 members; no group of size 0
\* or 1 is returned.
C1_EveryGroupHasTwoMembers ==
    Shown =>
        /\ Range(response.context.duplicate_groups.keys) = DOMAIN Groups
        /\ \A k \in DOMAIN Groups : Len(Groups[k]) >= 2

\* an identifier shared by two scenes is returned while one carried by a
\* single scene is dropped
C1_Witness ==
    /\ Returned("find_duplicates_by_stashid")
    /\ "X" \in DOMAIN Groups
    /\ "Y" \in AllIds
    /\ "Y" \notin DOMAIN Groups

\* C2: fuzzy-name grouping is a single-pass, seed-anchored merge over the
\* distinct normalized titles in first-encounter order: the bucket of T2 is in
\* the group keyed T1 exactly when T1 is a seed preceding T2, T2 is not yet
\* consumed when T1 scans it, and ratio(T1, T2) is strictly above 85 (exactly
\* 85 does not merge); the comparison is against the seed only, and every
\* returned key is a seed.
C2_SeedAnchoredMerge ==
    Returned("find_duplicates_by_name") =>
        LET titles == name_locals.titles
        IN  /\ \A a, b \in DOMAIN titles : a # b => titles[a] # titles[b]
            /\ Range(titles) = {normalized_title(catalog[i]) :
                                   i \in {i \in Refs : catalog[i].title # <<>>}}
            /\ \A a, b \in DOMAIN titles :
                   a < b => \E i \in Titled(titles[a]) :
                               \A j \in Titled(titles[b]) : i < j
            /\ \A i, j \in DOMAIN titles :
                   i # j => (MergedInto(titles[j], titles[i]) <=> SeedTakes(titles, i, j))
            /\ \A T \in DOMAIN Groups :
                   \E i \in DOMAIN titles : titles[i] = T /\ IsSeed(titles, i)

\* T2 is merged into T1's group; T3 is strictly above the threshold of T2 but
\* at exactly 85 of the seed T1, and stays out of every group
C2_Witness ==
    /\ Returned("find_duplicates_by_name")
    /\ LET titles == name_locals.titles
       IN  \E i, j, k \in DOMAIN titles :
              /\ i < j /\ j < k
              /\ MergedInto(titles[j], titles[i])
              /\ Above85(titles[j], titles[k])
              /\ Exactly85(titles[i], titles[k])
              /\ \A T \in DOMAIN Groups : ~MergedInto(titles[k], T)

\* C3: a request to /duplicates/{duplicate_type} with a selector outside
\* {stashid, name, oshash, phash} always ends in the not-found error, whatever
\* the configuration and the upstream do, without running a strategy.
C3_UnknownSelectorIsNotFound ==
    (request.route = "/duplicates" /\ request.duplicate_type \notin KnownTypes) =>
        /\ response.kind = "http_exception"
        /\ response.status_code = 404
        /\ strategy_run = "none"

\* C4: while config.json is absent or its endpoint is the placeholder, the
\* main page and the duplicate listing redirect to the settings page and no
\* catalog fetch is attempted.
C4_UnconfiguredRedirects ==
    (/\ request.route \in {"/", "/duplicates"}
     /\ get_config(config_file).stash_endpoint = Placeholder) =>
        /\ response.kind = "redirect"
        /\ response.url = "/settings"
        /\ fetches = <<>>

\* the failure detail the error view must carry
FailureDetail(outcome) ==
    IF outcome = "graphql_errors" THEN "GraphQL Error" ELSE "Failed to connect to Stash"

\* C5: when the catalog fetch fails (transport failure or GraphQL errors) the
\* request ends in the error view carrying the failure detail, exactly one
\* fetch was attempted, no strategy ran and the duplicates view is not shown;
\* a strategy runs only after a fetch of the same request succeeded.
C5_FetchFailureIsSurfaced ==
    /\ Len(fetches) <= 1
    /\ (\E p \in DOMAIN fetches : fetches[p] # "ok") =>
          /\ Len(fetches) = 1
          /\ response.kind = "template"
          /\ response.name = "error.html"
          /\ response.context.error_message =
                <<"Error fetching data: ", FailureDetail(fetches[1])>>
          /\ strategy_run = "none"
    /\ strategy_run # "none" => fetches = <<"ok">>
    /\ Shown => fetches = <<"ok">>

\* the fuzzy-name listing was asked for and the source answered with errors
C5_Witness ==
    /\ request.route = "/duplicates"
    /\ request.duplicate_type = "name"
    /\ fetches = <<"graphql_errors">>
    /\ response.kind = "template"
    /\ response.name = "error.html"
    /\ catalog # <<>>

\* C6: in fuzzy-name grouping a scene whose title is empty or blank is never
\* bucketed, never a member of a returned group, and no returned group has
\* the empty string as its key.
C6_BlankTitlesExcluded ==
    Returned("find_duplicates_by_name") =>
        /\ <<>> \notin DOMAIN Groups
        /\ \A T \in DOMAIN name_locals.title_groups.at :
              \A p \in DOMAIN name_locals.title_groups.at[T] :
                  ~IsBlank(catalog[name_locals.title_groups.at[T][p]].title)
        /\ \A T \in DOMAIN Groups :
              \A p \in DOMAIN Groups[T] : ~IsBlank(catalog[Groups[T][p]].title)

\* C7 as stated: in every returned group of every strategy the members follow
\* the order of the source list, merged fuzzy-name groups included.
C7_MembersInSourceOrder ==
    Shown =>
        \A k \in DOMAIN Groups :
            \A p, q \in DOMAIN Groups[k] : p < q => Groups[k][p] <= Groups[k][q]

\* C7 amended: the groups of the identifier and fingerprint strategies follow
\* the order of the source list; a fuzzy-name group is the seed's bucket
\* followed by the merged buckets in first-encounter order of their titles,
\* each bucket in the order of the source list.
C7_MembersInBucketOrder ==
    Shown =>
        \A k \in DOMAIN Groups :
            \A p, q \in DOMAIN Groups[k] :
                p < q =>
                    IF strategy_run = "find_duplicates_by_name"
                    THEN \/ TitleIndex(Groups[k][p]) < TitleIndex(Groups[k][q])
                         \/ /\ TitleIndex(Groups[k][p]) = TitleIndex(Groups[k][q])
                            /\ Groups[k][p] < Groups[k][q]
                    ELSE Groups[k][p] <= Groups[k][q]

\* a merged fuzzy-name group lists a later scene of the seed's bucket before
\* an earlier scene of a merged bucket
C7_Witness ==
    /\ Returned("find_duplicates_by_name")
    /\ \E k \in DOMAIN Groups :
          \E p, q \in DOMAIN Groups[k] : p < q /\ Groups[k][p] > Groups[k][q]

\* C8: fingerprint grouping (oshash and phash alike) keeps multiplicity: the
\* bucket of value V holds one entry per (scene, file, fingerprint) triple of
\* the requested kind and value V, it is returned exactly when it has at
\* least 2 entries, even if all are the same scene, and fingerprints of the
\* other kind contribute nothing.
C8_FingerprintMultiplicity ==
    (Returned("find_duplicates_by_oshash") \/ Returned("find_duplicates_by_phash")) =>
        /\ DOMAIN Groups \subseteq AllValues \ {""}
        /\ \A V \in AllValues \ {""} :
              /\ V \in DOMAIN Groups <=> Cardinality(Triples(HashKind, V)) >= 2
              /\ V \in DOMAIN Groups =>
                    /\ Len(Groups[V]) = Cardinality(Triples(HashKind, V))
                    /\ \A i \in Refs :
                          Occurrences(Groups[V], i) =
                              Cardinality({t \in Triples(HashKind, V) : t[1] = i})

\* a returned oshash bucket whose entries are all the same scene, while
\* another scene carries the same value as a phash
C8_Witness ==
    /\ Returned("find_duplicates_by_oshash")
    /\ \E V \in DOMAIN Groups :
          /\ Cardinality(Range(Groups[V])) = 1
          /\ \E t \in Triples("phash", V) : t[1] \notin Range(Groups[V])

\* C9: in identifier grouping a scene is a member of the returned group of X
\* exactly when X is a non-empty identifier of the scene and at least one
\* other scene carries X; it appears exactly once in each such group, and
\* total_duplicate_scenes counts it once per group it belongs to.
C9_IdentifierMembership ==
    Returned("find_duplicates_by_stashid") =>
        /\ \A X \in AllIds \cup DOMAIN Groups :
              \A i \in Refs :
                  LET member == X \in DOMAIN Groups /\ i \in Range(Groups[X])
                  IN  /\ member <=> (/\ X # ""
                                     /\ X \in Ids(i)
                                     /\ \E j \in Refs : j # i /\ X \in Ids(j))
                      /\ member => Occurrences(Groups[X], i) = 1
        /\ response.context.total_duplicate_scenes =
              Cardinality({<<X, i>> \in (DOMAIN Groups) \X Refs : i \in Range(Groups[X])})

\* C10: the fuzzy-name result is a partial partition of the input: every
\* distinct normalized title has its bucket in at most one returned group,
\* every entry of the scene list is in at most one returned group and at most
\* once in it, every title is consumed when the loop ends, and the exact-title
\* buckets are what the bucketing made them.
C10_PartialPartition ==
    Returned("find_duplicates_by_name") =>
        /\ \A i \in Refs :
              Cardinality(UNION {{<<k, p>> : p \in {p \in DOMAIN Groups[k] : Groups[k][p] = i}} :
                                 k \in DOMAIN Groups}) <= 1
        /\ \A T \in Range(name_locals.titles) :
              Cardinality({k \in DOMAIN Groups : MergedInto(T, k)}) <= 1
        /\ name_locals.processed = Range(name_locals.titles)
        /\ DOMAIN name_locals.title_groups.at = Range(name_locals.titles)
        /\ \A T \in DOMAIN name_locals.title_groups.at :
              LET bucket == name_locals.title_groups.at[T]
              IN  /\ Range(bucket) = Titled(T)
                  /\ \A p, q \in DOMAIN bucket : p < q => bucket[p] < bucket[q]

\* a title with a bucket of two scenes was consumed by an earlier seed and is
\* the key of no returned group
C10_Witness ==
    /\ Returned("find_duplicates_by_name")
    /\ \E T \in Range(name_locals.titles) :
          /\ Len(name_locals.title_groups.at[T]) >= 2
          /\ T \notin DOMAIN Groups
          /\ \E k \in DOMAIN Groups : MergedInto(T, k)

====
